---- MODULE Spec2Model ----
\* Transaction ledger of the lumafin back office: accounts, transactions,
\* recurring templates, as the Django models, DRF serializers and viewsets
\* under backend/apps/transactions and backend/apps/accounts implement them.
\* Amounts and balances are Decimal(20, 8) values, counted here in units of
\* 10^-8. Datetimes are kept to the day: every offset the code adds is a whole
\* number of days, months or years.
EXTENDS Integers, Sequences, FiniteSets, Bags, TLC

\* ---------------------------------------------------------------- bounds
NumAccounts == 2
MaxAmount == 1
MaxBalance == 2
MaxTxns == 2
MaxRand == 1
MaxDays == 1

\* ------------------------------------------------------------- constants
NULL == 0
Users == {"u1", "u2"}
AccountIds == 1..NumAccounts
Amounts == (0 - 1)..MaxAmount
EmptyRef == <<>>
NoDate == [y |-> 0, m |-> 0, d |-> 0]
StartDate == [y |-> 2024, m |-> 1, d |-> 31]
STATUS_CHOICES ==
    {"pending", "processing", "completed", "failed", "cancelled", "disputed", "refunded"}
FREQUENCY_CHOICES == {"daily", "weekly", "biweekly", "monthly", "quarterly", "yearly"}
PatchStatuses == {"pending", "completed"}
RefPrefix == <<"T", "X", "N">>
RefSuffixLen == 8
DigitChar == <<"0", "1", "2", "3", "4", "5", "6", "7", "8", "9">>
DigitChars == {DigitChar[i] : i \in 1..10}

VARIABLES accounts, transactions, recurring, now, ticks, response,
          disputes, cards, card_number, inflight

vars == <<accounts, transactions, recurring, now, ticks, response,
          disputes, cards, card_number, inflight>>

\* ------------------------------------------------------------- calendar
IsLeap(y) == (y % 4 = 0 /\ y % 100 # 0) \/ y % 400 = 0

DaysInMonth(y, m) ==
    IF m = 2 THEN (IF IsLeap(y) THEN 29 ELSE 28)
    ELSE IF m \in {4, 6, 9, 11} THEN 30 ELSE 31

NextDay(dt) ==
    IF dt.d < DaysInMonth(dt.y, dt.m) THEN [dt EXCEPT !.d = @ + 1]
    ELSE IF dt.m < 12 THEN [y |-> dt.y, m |-> dt.m + 1, d |-> 1]
    ELSE [y |-> dt.y + 1, m |-> 1, d |-> 1]

RECURSIVE AddDays(_, _)
AddDays(dt, n) == IF n = 0 THEN dt ELSE AddDays(NextDay(dt), n - 1)

Min(a, b) == IF a < b THEN a ELSE b

\* dateutil relativedelta(months=n): the month moves, the day is clamped to
\* the last day of the target month.
AddMonths(dt, n) ==
    LET total == (dt.m - 1) + n
        yy == dt.y + (total \div 12)
        mm == (total % 12) + 1
    IN [y |-> yy, m |-> mm, d |-> Min(dt.d, DaysInMonth(yy, mm))]

\* ------------------------------------------------------ reference number
RECURSIVE ZeroPad(_, _)
ZeroPad(n, w) ==
    IF w = 0 THEN <<>> ELSE Append(ZeroPad(n \div 10, w - 1), DigitChar[(n % 10) + 1])

\* strftime('%Y%m%d')
StrfYmd(dt) == ZeroPad(dt.y, 4) \o ZeroPad(dt.m, 2) \o ZeroPad(dt.d, 2)

\* random.choices(string.digits, k=8): the 8 digits drawn are those of rnd.
generate_reference_number(today, rnd) ==
    RefPrefix \o StrfYmd(today) \o ZeroPad(rnd, RefSuffixLen)

\* Transaction.save without the test of line 135: every save draws anew.
TransactionSaveAlways(txn, today, rnd) ==
    [txn EXCEPT !.reference_number = generate_reference_number(today, rnd)]

\* Transaction.save: a reference number is generated only when there is none.
TransactionSave(txn, today, rnd) ==
    IF txn.reference_number = EmptyRef
    THEN [txn EXCEPT !.reference_number = generate_reference_number(today, rnd)]
    ELSE txn

\* reference_number without unique=True: every insert goes through.
UniqueViolationNever(store, txn) == FALSE

\* reference_number is unique=True: the insert of a row whose number is
\* already stored raises IntegrityError.
UniqueViolation(store, txn) ==
    \E i \in 1..Len(store) : store[i].reference_number = txn.reference_number

\* ---------------------------------------------------------------- accounts
Owner(a) == IF a % 2 = 1 THEN "u1" ELSE "u2"

NewTransaction(from, to, amount, status) ==
    [from_account |-> from, to_account |-> to, amount |-> amount,
     status |-> status, reference_number |-> EmptyRef, processed_at |-> NoDate]

\* AccountLimit.is_limit_exceeded
is_limit_exceeded(l) == l.used_amount >= l.limit_amount

\* TransactionLimit.is_exceeded
is_exceeded(l) == l.used_value >= l.limit_value

\* validate refusing a source account one of whose limits is exceeded.
ValidateChecksLimits(user, from, to, amount, accts) ==
    IF from # NULL /\ accts[from].user # user THEN "not_owner"
    ELSE IF from # NULL /\ accts[from].available_balance < amount THEN "insufficient_funds"
    ELSE IF amount <= 0 THEN "amount_not_positive"
    ELSE IF from # NULL
            /\ \/ \E i \in 1..Len(accts[from].limits) :
                     is_limit_exceeded(accts[from].limits[i])
               \/ \E i \in 1..Len(accts[from].transaction_limits) :
                     is_exceeded(accts[from].transaction_limits[i])
    THEN "limit_exceeded"
    ELSE "ok"

\* validate with amount < 0 in place of amount <= 0.
ValidateZeroAmountPasses(user, from, to, amount, accts) ==
    IF from # NULL /\ accts[from].user # user THEN "not_owner"
    ELSE IF from # NULL /\ accts[from].available_balance < amount THEN "insufficient_funds"
    ELSE IF amount < 0 THEN "amount_not_positive"
    ELSE "ok"

\* validate without the sufficient-funds check.
ValidateNoFundsCheck(user, from, to, amount, accts) ==
    IF from # NULL /\ accts[from].user # user THEN "not_owner"
    ELSE IF amount <= 0 THEN "amount_not_positive"
    ELSE "ok"

\* validate without the ownership check.
ValidateNoOwnerCheck(user, from, to, amount, accts) ==
    IF from # NULL /\ accts[from].available_balance < amount THEN "insufficient_funds"
    ELSE IF amount <= 0 THEN "amount_not_positive"
    ELSE "ok"

\* TransactionCreateSerializer.validate: the checks in the order of the code.
Validate(user, from, to, amount, accts) ==
    IF from # NULL /\ accts[from].user # user THEN "not_owner"
    ELSE IF from # NULL /\ accts[from].available_balance < amount THEN "insufficient_funds"
    ELSE IF amount <= 0 THEN "amount_not_positive"
    ELSE "ok"

\* _process_transaction adding the amount to the used amounts of the limits
\* of the source account.
ProcessBalancesTrackingLimits(accts, from, to, amount) ==
    LET from_obj == accts[from]
        to_obj == accts[to]
        debited == IF from # NULL
                   THEN [accts EXCEPT ![from] =
                            [from_obj EXCEPT
                                !.available_balance = @ - amount,
                                !.limits = [i \in 1..Len(@) |->
                                    [@[i] EXCEPT !.used_amount = @ + amount]],
                                !.transaction_limits = [i \in 1..Len(@) |->
                                    [@[i] EXCEPT !.used_value = @ + amount]]]]
                   ELSE accts
    IN IF to # NULL
       THEN [debited EXCEPT ![to].available_balance = @ + amount]
       ELSE debited

\* _process_transaction, the two balance writes. from_account and to_account
\* are two objects the serializer loaded before validation; each save writes
\* the whole row of its own object.
ProcessBalances(accts, from, to, amount) ==
    LET from_obj == accts[from]
        to_obj == accts[to]
        debited == IF from # NULL
                   THEN [accts EXCEPT ![from] =
                            [from_obj EXCEPT !.available_balance = @ - amount]]
                   ELSE accts
    IN IF to # NULL
       THEN [debited EXCEPT ![to] = [to_obj EXCEPT !.available_balance = @ + amount]]
       ELSE debited

\* serializers.py imports serializers, Decimal, the models and Account: the
\* name timezone used by _process_transaction is not bound in the module.
TimezoneImported == FALSE

\* _process_transaction, the status update: timezone.now() is evaluated
\* before transaction.save(), so an unbound name leaves the stored row as is.
ProcessStatus(txn, today) ==
    IF TimezoneImported
    THEN [txn EXCEPT !.status = "completed", !.processed_at = today]
    ELSE txn

ProcessError == IF TimezoneImported THEN "none" ELSE "NameError"

\* calculate_next_execution adding to the previous next_execution.
calculate_next_execution_from_next(rt) ==
    IF rt.last_executed = NoDate THEN rt.next_execution
    ELSE IF rt.frequency = "daily" THEN AddDays(rt.next_execution, 1)
    ELSE IF rt.frequency = "weekly" THEN AddDays(rt.next_execution, 7)
    ELSE IF rt.frequency = "biweekly" THEN AddDays(rt.next_execution, 14)
    ELSE IF rt.frequency = "monthly" THEN AddMonths(rt.last_executed, 1)
    ELSE IF rt.frequency = "quarterly" THEN AddMonths(rt.last_executed, 3)
    ELSE IF rt.frequency = "yearly" THEN AddMonths(rt.last_executed, 12)
    ELSE rt.next_execution

\* calculate_next_execution with months of 30 days and years of 365.
calculate_next_execution_fixed_days(rt) ==
    IF rt.last_executed = NoDate THEN rt.next_execution
    ELSE IF rt.frequency = "daily" THEN AddDays(rt.last_executed, 1)
    ELSE IF rt.frequency = "weekly" THEN AddDays(rt.last_executed, 7)
    ELSE IF rt.frequency = "biweekly" THEN AddDays(rt.last_executed, 14)
    ELSE IF rt.frequency = "monthly" THEN AddDays(rt.last_executed, 30)
    ELSE IF rt.frequency = "quarterly" THEN AddDays(rt.last_executed, 90)
    ELSE IF rt.frequency = "yearly" THEN AddDays(rt.last_executed, 365)
    ELSE rt.next_execution

\* RecurringTransaction.calculate_next_execution
calculate_next_execution(rt) ==
    IF rt.last_executed = NoDate THEN rt.next_execution
    ELSE IF rt.frequency = "daily" THEN AddDays(rt.last_executed, 1)
    ELSE IF rt.frequency = "weekly" THEN AddDays(rt.last_executed, 7)
    ELSE IF rt.frequency = "biweekly" THEN AddDays(rt.last_executed, 14)
    ELSE IF rt.frequency = "monthly" THEN AddMonths(rt.last_executed, 1)
    ELSE IF rt.frequency = "quarterly" THEN AddMonths(rt.last_executed, 3)
    ELSE IF rt.frequency = "yearly" THEN AddMonths(rt.last_executed, 12)
    ELSE rt.next_execution

\* TransactionViewSet.get_queryset: the transactions that touch an account
\* of the user.
VisibleTo(user, txn, accts) ==
    \/ txn.from_account # NULL /\ accts[txn.from_account].user = user
    \/ txn.to_account # NULL /\ accts[txn.to_account].user = user

\* The recurring templates the store holds at the start. The API cannot add
\* one (next_execution is required by the model and read-only in
\* RecurringTransactionSerializer), so they come from outside it.
InitRecurring ==
    {<<[user |-> u, from_account |-> 1, to_account |-> to, amount |-> 1,
        frequency |-> f, next_execution |-> StartDate, is_active |-> TRUE,
        execution_count |-> 0, max_executions |-> 1,
        last_executed |-> NoDate, last_transaction |-> NULL]>> :
       u \in Users, to \in {NumAccounts}, f \in {"monthly"}}

Resp(op, error, detail) == [op |-> op, error |-> error, detail |-> detail]

\* response is the outcome of the last request: the operation, the exception
\* that ended it ("none" when it returned normally) and, for a
\* ValidationError, the check that raised it.
\* ------------------------------------------------------------------ Init
Init ==
    /\ accounts = [a \in AccountIds |-> [user |-> Owner(a), available_balance |-> 0]]
    /\ transactions = <<>>
    /\ recurring \in InitRecurring
    /\ now = StartDate
    /\ ticks = 0
    /\ response = Resp("none", "none", "none")
    /\ disputes = <<>>
    /\ cards = <<>>
    /\ card_number = EmptyRef
    /\ inflight = <<>>

\* --------------------------------------------------------------- actions
\* POST /transactions: TransactionCreateSerializer.validate, then create.
CreateTransaction(user, from, to, amount) ==
    /\ LET err == Validate(user, from, to, amount, accounts)
       IN IF err # "ok"
          THEN /\ response' = Resp("create_transaction", "ValidationError", err)
               /\ UNCHANGED <<accounts, transactions>>
          ELSE \E rnd \in 0..MaxRand :
                 LET row == TransactionSave(NewTransaction(from, to, amount, "pending"),
                                            now, rnd)
                     moved == ProcessBalances(accounts, from, to, amount)
                 IN IF UniqueViolation(transactions, row)
                    THEN /\ response' = Resp("create_transaction", "IntegrityError", "none")
                         /\ UNCHANGED <<accounts, transactions>>
                    ELSE /\ Len(transactions) < MaxTxns
                         /\ \A a \in AccountIds : moved[a].available_balance <= MaxBalance
                         /\ accounts' = moved
                         /\ transactions' = Append(transactions, ProcessStatus(row, now))
                         /\ response' = Resp("create_transaction", ProcessError, "none")
    /\ UNCHANGED <<recurring, now, ticks, disputes, cards, card_number, inflight>>

\* execute switching the template off once execution_count has reached
\* max_executions or the execution time is past end_date.
ExecuteDeactivating(user, r) ==
    /\ IF recurring[r].user # user
       THEN /\ response' = Resp("execute", "NotFound", "none")
            /\ UNCHANGED <<transactions, recurring>>
       ELSE \E rnd \in 0..MaxRand :
              LET rt == recurring[r]
                  ended == /\ rt.end_date # NoDate
                           /\ \/ now.y > rt.end_date.y
                              \/ now.y = rt.end_date.y /\ now.m > rt.end_date.m
                              \/ now.y = rt.end_date.y /\ now.m = rt.end_date.m
                                    /\ now.d > rt.end_date.d
                  row == TransactionSave(
                             NewTransaction(rt.from_account, rt.to_account, rt.amount,
                                            "pending"), now, rnd)
                  stamped == [rt EXCEPT !.last_executed = now,
                                        !.execution_count = @ + 1,
                                        !.last_transaction = Len(transactions) + 1,
                                        !.is_active =
                                            /\ @
                                            /\ rt.execution_count + 1 < rt.max_executions
                                            /\ ~ended]
              IN IF UniqueViolation(transactions, row)
                 THEN /\ response' = Resp("execute", "IntegrityError", "none")
                      /\ UNCHANGED <<transactions, recurring>>
                 ELSE /\ Len(transactions) < MaxTxns
                      /\ transactions' = Append(transactions, row)
                      /\ recurring' = [recurring EXCEPT ![r] =
                             [stamped EXCEPT !.next_execution =
                                 calculate_next_execution(stamped)]]
                      /\ response' = Resp("execute", "none", "none")
    /\ UNCHANGED <<accounts, now, ticks, disputes, cards, card_number, inflight>>

\* execute passing the new transaction to _process_transaction: the balances
\* of the two accounts move.
ExecuteMovingMoney(user, r) ==
    /\ IF recurring[r].user # user
       THEN /\ response' = Resp("execute", "NotFound", "none")
            /\ UNCHANGED <<accounts, transactions, recurring>>
       ELSE \E rnd \in 0..MaxRand :
              LET rt == recurring[r]
                  row == TransactionSave(
                             NewTransaction(rt.from_account, rt.to_account, rt.amount,
                                            "pending"), now, rnd)
                  stamped == [rt EXCEPT !.last_executed = now,
                                        !.execution_count = @ + 1,
                                        !.last_transaction = Len(transactions) + 1]
              IN IF UniqueViolation(transactions, row)
                 THEN /\ response' = Resp("execute", "IntegrityError", "none")
                      /\ UNCHANGED <<accounts, transactions, recurring>>
                 ELSE /\ Len(transactions) < MaxTxns
                      /\ transactions' = Append(transactions, row)
                      /\ accounts' = ProcessBalances(accounts, rt.from_account,
                                                     rt.to_account, rt.amount)
                      /\ recurring' = [recurring EXCEPT ![r] =
                             [stamped EXCEPT !.next_execution =
                                 calculate_next_execution(stamped)]]
                      /\ response' = Resp("execute", "none", "none")
    /\ UNCHANGED <<now, ticks, disputes, cards, card_number, inflight>>

\* POST /recurring-transactions/{r}/execute
Execute(user, r) ==
    /\ IF recurring[r].user # user
       THEN /\ response' = Resp("execute", "NotFound", "none")
            /\ UNCHANGED <<transactions, recurring>>
       ELSE \E rnd \in 0..MaxRand :
              LET rt == recurring[r]
                  row == TransactionSave(
                             NewTransaction(rt.from_account, rt.to_account, rt.amount,
                                            "pending"), now, rnd)
                  stamped == [rt EXCEPT !.last_executed = now,
                                        !.execution_count = @ + 1,
                                        !.last_transaction = Len(transactions) + 1]
              IN IF UniqueViolation(transactions, row)
                 THEN /\ response' = Resp("execute", "IntegrityError", "none")
                      /\ UNCHANGED <<transactions, recurring>>
                 ELSE /\ Len(transactions) < MaxTxns
                      /\ transactions' = Append(transactions, row)
                      /\ recurring' = [recurring EXCEPT ![r] =
                             [stamped EXCEPT !.next_execution =
                                 calculate_next_execution(stamped)]]
                      /\ response' = Resp("execute", "none", "none")
    /\ UNCHANGED <<accounts, now, ticks, disputes, cards, card_number, inflight>>

\* PATCH /transactions/{t} with a new status: TransactionSerializer lists
\* status among its writable fields; ModelSerializer.update ends in
\* Transaction.save.
UpdateTransaction(user, t, status) ==
    /\ \E rnd \in 0..MaxRand :
         IF ~VisibleTo(user, transactions[t], accounts)
         THEN /\ response' = Resp("update_transaction", "NotFound", "none")
              /\ UNCHANGED transactions
         ELSE /\ transactions' = [transactions EXCEPT ![t] =
                     TransactionSave([@ EXCEPT !.status = status], now, rnd)]
              /\ response' = Resp("update_transaction", "none", "none")
    /\ UNCHANGED <<accounts, recurring, now, ticks, disputes, cards, card_number, inflight>>

\* The clock moves to the next day.
Tick ==
    /\ ticks < MaxDays
    /\ ticks' = ticks + 1
    /\ now' = NextDay(now)
    /\ response' = Resp("none", "none", "none")
    /\ UNCHANGED <<accounts, transactions, recurring, disputes, cards, card_number, inflight>>

Next ==
    \/ \E user \in Users, from \in AccountIds \cup {NULL}, to \in AccountIds \cup {NULL},
          amount \in Amounts : CreateTransaction(user, from, to, amount)
    \/ \E user \in Users, r \in 1..Len(recurring) : Execute(user, r)
    \/ \E user \in Users, t \in 1..Len(transactions), status \in PatchStatuses :
          UpdateTransaction(user, t, status)
    \/ Tick

Spec == Init /\ [][Next]_vars

\* ---------------------------------------------------------------- claims
Bal(accts, a) == accts[a].available_balance

RECURSIVE SumTo(_, _)
SumTo(accts, n) == IF n = 0 THEN 0 ELSE Bal(accts, n) + SumTo(accts, n - 1)

TotalAvailable(accts) == SumTo(accts, NumAccounts)

\* The step stored one new transaction row.
StoredNewRow == Len(transactions') = Len(transactions) + 1

NewRow == transactions'[Len(transactions')]

\* C1: every create_transaction request that passes validation with
\* from_account and to_account set to two different accounts leaves
\* from_account.available_balance lower by exactly amount and
\* to_account.available_balance higher by exactly amount.
C1_TransferMovesAmount ==
    [][\A user \in Users, from \in AccountIds, to \in AccountIds, amount \in Amounts :
          (/\ from # to
           /\ Validate(user, from, to, amount, accounts) = "ok"
           /\ CreateTransaction(user, from, to, amount))
          => /\ Bal(accounts', from) = Bal(accounts, from) - amount
             /\ Bal(accounts', to) = Bal(accounts, to) + amount]_vars

\* Whenever the row of a validated transfer between two different accounts
\* is stored, the two balances move by exactly amount.
StoredTransferMovesAmount ==
    [][\A user \in Users, from \in AccountIds, to \in AccountIds, amount \in Amounts :
          (/\ StoredNewRow
           /\ from # to
           /\ CreateTransaction(user, from, to, amount))
          => /\ Bal(accounts', from) = Bal(accounts, from) - amount
             /\ Bal(accounts', to) = Bal(accounts, to) + amount]_vars

\* Whenever the row of a deposit is stored, to_account is credited exactly
\* amount and no other balance changes.
StoredDepositCredits ==
    [][\A user \in Users, to \in AccountIds, amount \in Amounts :
          (StoredNewRow /\ CreateTransaction(user, NULL, to, amount))
          => /\ Bal(accounts', to) = Bal(accounts, to) + amount
             /\ \A a \in AccountIds \ {to} : Bal(accounts', a) = Bal(accounts, a)]_vars

\* C2: every create_transaction request that passes validation with both
\* from_account and to_account set, whichever accounts they name, leaves the
\* sum of available_balance over all accounts unchanged.
C2_SumInvariant ==
    [][\A user \in Users, from \in AccountIds, to \in AccountIds, amount \in Amounts :
          (/\ Validate(user, from, to, amount, accounts) = "ok"
           /\ CreateTransaction(user, from, to, amount))
          => TotalAvailable(accounts') = TotalAvailable(accounts)]_vars

\* C3: no partial application: a step that changes a balance also stores
\* the transaction with status completed, and a transfer between two
\* accounts changes both balances or neither.
C3_NoPartialApplication ==
    [][(accounts' # accounts)
          => /\ StoredNewRow
             /\ NewRow.status = "completed"
             /\ (NewRow.from_account # NULL /\ NewRow.to_account # NULL
                 /\ NewRow.from_account # NewRow.to_account)
                => /\ Bal(accounts', NewRow.from_account)
                        # Bal(accounts, NewRow.from_account)
                   /\ Bal(accounts', NewRow.to_account)
                        # Bal(accounts, NewRow.to_account)]_vars

\* C4: every create_transaction request that passes validation ends with the
\* new transaction stored with status completed and processed_at set, and
\* returns the transaction.
C4_ValidRequestCompletes ==
    [][\A user \in Users, from \in AccountIds \cup {NULL}, to \in AccountIds \cup {NULL},
          amount \in Amounts :
          (/\ Validate(user, from, to, amount, accounts) = "ok"
           /\ CreateTransaction(user, from, to, amount))
          => /\ StoredNewRow
             /\ NewRow.status = "completed"
             /\ NewRow.processed_at # NoDate
             /\ response'.error = "none"]_vars

\* C5: a deposit (from_account null, to_account set, amount > 0) is accepted,
\* raises to_account.available_balance by exactly amount and changes no
\* other account's available_balance.
C5_Deposit ==
    [][\A user \in Users, to \in AccountIds, amount \in Amounts :
          (amount > 0 /\ CreateTransaction(user, NULL, to, amount))
          => /\ response'.error # "ValidationError"
             /\ Bal(accounts', to) = Bal(accounts, to) + amount
             /\ \A a \in AccountIds \ {to} : Bal(accounts', a) = Bal(accounts, a)]_vars

\* The step is a create_transaction request that ended in a ValidationError
\* and left the stored accounts and transactions as they were.
RejectedUnchanged ==
    /\ response'.op = "create_transaction"
    /\ response'.error = "ValidationError"
    /\ UNCHANGED <<accounts, transactions>>

\* C6: a create_transaction request with amount <= 0 fails with a
\* ValidationError whatever the accounts are, stores no transaction and
\* changes no balance.
C6_NonPositiveAmountRejected ==
    [][\/ RejectedUnchanged
       \/ \A user \in Users, from \in AccountIds \cup {NULL},
             to \in AccountIds \cup {NULL}, amount \in Amounts :
             amount <= 0 => ~CreateTransaction(user, from, to, amount)]_vars

C6_Witness ==
    /\ response.op = "create_transaction"
    /\ response.detail = "amount_not_positive"
    /\ \E a \in AccountIds : Bal(accounts, a) > 0

\* C7: a create_transaction request whose from_account has
\* available_balance < amount fails with a ValidationError, stores no
\* transaction and leaves the balances of from_account and to_account as
\* they were.
C7_InsufficientFundsRejected ==
    [][\/ RejectedUnchanged
       \/ \A user \in Users, from \in AccountIds, to \in AccountIds \cup {NULL},
             amount \in Amounts :
             Bal(accounts, from) < amount => ~CreateTransaction(user, from, to, amount)]_vars

C7_Witness ==
    /\ response.op = "create_transaction"
    /\ response.detail = "insufficient_funds"
    /\ \E a \in AccountIds : Bal(accounts, a) > 0

\* C8: a create_transaction request whose from_account belongs to another
\* user fails with a ValidationError, and every step that lowers an
\* account's available_balance is a create_transaction request of the
\* account's owner on that account, and of nobody else.
C8_OnlyOwnerDebits ==
    [][/\ \/ RejectedUnchanged
          \/ \A user \in Users, from \in AccountIds, to \in AccountIds \cup {NULL},
                amount \in Amounts :
                accounts[from].user # user => ~CreateTransaction(user, from, to, amount)
       /\ \A a \in AccountIds :
             Bal(accounts', a) < Bal(accounts, a)
             => /\ \E to \in AccountIds \cup {NULL}, amount \in Amounts :
                      CreateTransaction(accounts[a].user, a, to, amount)
                /\ \A user \in Users, from \in AccountIds \cup {NULL},
                      to \in AccountIds \cup {NULL}, amount \in Amounts :
                      CreateTransaction(user, from, to, amount)
                      => (from = a /\ user = accounts[a].user)]_vars

C8_Witness ==
    /\ response.op = "create_transaction"
    /\ response.detail = "not_owner"
    /\ \E i \in 1..Len(transactions) :
          /\ transactions[i].from_account # NULL
          /\ transactions[i].to_account # NULL
          /\ transactions[i].from_account # transactions[i].to_account
          /\ Bal(accounts, transactions[i].to_account) > 0

\* C9: after any sequence of create_transaction and execute requests, no two
\* stored transactions have the same reference_number.
C9_ReferenceNumbersUnique ==
    \A i, j \in 1..Len(transactions) :
        i # j => transactions[i].reference_number # transactions[j].reference_number

DatePart(ref) == SubSeq(ref, Len(RefPrefix) + 1, Len(RefPrefix) + 8)

C9_Witness ==
    /\ response.error = "IntegrityError"
    /\ \E i, j \in 1..Len(transactions) :
          /\ i # j
          /\ DatePart(transactions[i].reference_number)
                = DatePart(transactions[j].reference_number)
          /\ transactions[i].from_account = NULL
          /\ recurring[1].last_transaction = j

\* TXN, then the 8 digits of the day, then 8 decimal digits.
IsReferenceForm(ref, today) ==
    /\ Len(ref) = 19
    /\ SubSeq(ref, 1, 3) = <<"T", "X", "N">>
    /\ DatePart(ref) = StrfYmd(today)
    /\ \A k \in 4..19 : ref[k] \in DigitChars

\* C10: Transaction.save gives a transaction without reference_number one of
\* the form TXN + YYYYMMDD + 8 digits, and every later save of a stored
\* transaction leaves its reference_number unchanged.
C10_ReferenceAssignedOnce ==
    [][/\ StoredNewRow => IsReferenceForm(NewRow.reference_number, now)
       /\ Len(transactions') >= Len(transactions)
       /\ \A i \in 1..Len(transactions) :
             transactions'[i].reference_number = transactions[i].reference_number]_vars

C10_Witness ==
    /\ response.op = "update_transaction"
    /\ response.error = "none"
    /\ \E i \in 1..Len(transactions) :
          /\ transactions[i].status = "completed"
          /\ DatePart(transactions[i].reference_number) # StrfYmd(now)

\* ------------------------------------------------------------- disputes
\* disputes is the transaction_disputes table, in insertion order.
\* A key the request body does not carry.
Missing == "<missing>"

DISPUTE_REASONS ==
    {"unauthorized", "duplicate", "not_received", "defective", "incorrect_amount",
     "fraud", "other"}
DISPUTE_STATUS == {"open", "investigating", "resolved", "rejected", "closed"}

\* The request bodies the dispute operation is tried with.
DisputeBodies ==
    [reason : {Missing, "unauthorized", "fraud", "other"},
     status : {Missing, "open", "resolved"},
     description : {"", "text"}]

\* hasattr(transaction, 'dispute'): never true.
HasDisputeNever(store, t) == FALSE

\* hasattr(transaction, 'dispute'): the reverse side of the one-to-one
\* relation finds a row.
HasDispute(store, t) == \E i \in 1..Len(store) : store[i].transaction = t

\* transaction as a plain foreign key: no unique index on the column.
DisputeUniqueViolationNever(store, t) == FALSE

\* The unique index of the one-to-one column transaction_disputes.transaction.
DisputeUniqueViolation(store, t) == \E i \in 1..Len(store) : store[i].transaction = t

\* TransactionDisputeSerializer.is_valid: reason is required and one of the
\* choices, status is optional and one of the choices, description is
\* required and not blank.
DisputeIsValid(body) ==
    /\ body.reason \in DISPUTE_REASONS
    /\ body.status \in DISPUTE_STATUS \cup {Missing}
    /\ body.description \notin {Missing, ""}

\* serializer.save(transaction=, user=): the validated fields of the body,
\* the model default for a status the body does not carry.
NewDispute(t, user, body) ==
    [transaction |-> t, user |-> user, reason |-> body.reason,
     status |-> IF body.status = Missing THEN "open" ELSE body.status,
     description |-> body.description]

\* Two deposits, one into each account, as CreateTransaction leaves them.
DisputedTransactions ==
    [t \in 1..MaxTxns |->
        TransactionSave(NewTransaction(NULL, ((t - 1) % NumAccounts) + 1, 1, "pending"),
                        StartDate, t - 1)]

InitDispute ==
    /\ accounts = [a \in AccountIds |-> [user |-> Owner(a), available_balance |-> 1]]
    /\ transactions = DisputedTransactions
    /\ recurring = <<>>
    /\ now = StartDate
    /\ ticks = 0
    /\ response = Resp("none", "none", "none")
    /\ disputes = <<>>
    /\ cards = <<>>
    /\ card_number = EmptyRef
    /\ inflight = <<>>

\* POST /transactions/{t}/dispute
Dispute(user, t, body) ==
    /\ IF ~VisibleTo(user, transactions[t], accounts)
       THEN /\ response' = Resp("dispute", "NotFound", "none")
            /\ UNCHANGED disputes
       ELSE IF HasDispute(disputes, t)
       THEN /\ response' = Resp("dispute", "Conflict", "DISPUTE_EXISTS")
            /\ UNCHANGED disputes
       ELSE IF ~DisputeIsValid(body)
       THEN /\ response' = Resp("dispute", "BadRequest", "VALIDATION_ERROR")
            /\ UNCHANGED disputes
       ELSE IF DisputeUniqueViolation(disputes, t)
       THEN /\ response' = Resp("dispute", "IntegrityError", "none")
            /\ UNCHANGED disputes
       ELSE /\ disputes' = Append(disputes, NewDispute(t, user, body))
            /\ response' = Resp("dispute", "none", "none")
    /\ UNCHANGED <<accounts, transactions, recurring, now, ticks, cards, card_number, inflight>>

NextDispute ==
    \E user \in Users, t \in 1..Len(transactions), body \in DisputeBodies :
        Dispute(user, t, body)

SpecDispute == InitDispute /\ [][NextDispute]_vars

\* C11: when dispute is called on a transaction that already has a dispute,
\* the call fails with Conflict (HTTP 409, DISPUTE_EXISTS), creates no second
\* TransactionDispute and leaves the first dispute unchanged.
C11_SecondDisputeConflicts ==
    [][\/ /\ response' = Resp("dispute", "Conflict", "DISPUTE_EXISTS")
          /\ disputes' = disputes
       \/ \A user \in Users, t \in 1..Len(transactions), body \in DisputeBodies :
             (/\ VisibleTo(user, transactions[t], accounts)
              /\ \E i \in 1..Len(disputes) : disputes[i].transaction = t)
             => ~Dispute(user, t, body)]_vars

\* A second dispute call on a disputed transaction was answered with Conflict.
C11_Witness ==
    /\ response = Resp("dispute", "Conflict", "DISPUTE_EXISTS")
    /\ Len(disputes) >= 1

\* C12: every TransactionDispute created by the dispute operation is stored
\* in state open, whatever fields the request body carries.
C12_DisputesStoredOpen ==
    \A i \in 1..Len(disputes) : disputes[i].status = "open"

\* --------------------------------------------------------- card numbers
\* card_number is the card_number of the Card being saved, a string of
\* digit characters and spaces; EmptyRef before the first save.
MaxNonZero == 2

IdentifierLen == 11
bin_number == <<"4", "5", "3", "2">>

\* random.choices(string.digits, k=11): the strings of 11 digit characters,
\* taken here with at most MaxNonZero characters other than "0". P is the
\* set of their positions, f the characters at them.
NonZeroPositions ==
    {Q \in SUBSET (1..IdentifierLen) : Cardinality(Q) <= MaxNonZero}

AccountIdentifier(P, f) == [i \in 1..IdentifierLen |-> IF i \in P THEN f[i] ELSE "0"]

\* int(d) of one digit character.
IntOfChar(c) == CHOOSE n \in 0..9 : DigitChar[n + 1] = c

\* str(int(s)) of a string of digit characters: the integer keeps no
\* leading zero.
RECURSIVE StrOfInt(_)
StrOfInt(s) ==
    IF Len(s) > 1 /\ Head(s) = "0" THEN StrOfInt(Tail(s)) ELSE s

\* digits_of(n) = [int(d) for d in str(n)], n given by its decimal string.
digits_of(s) == [i \in 1..Len(s) |-> IntOfChar(s[i])]

\* sum(digits_of(d * 2)) for one digit d.
DoubledDigitSum(d) == ((d * 2) \div 10) + ((d * 2) % 10)

\* The sum over digits[-k::-2], each digit passed through double or not.
RECURSIVE SumFromRight(_, _, _)
SumFromRight(digits, k, double) ==
    IF k > Len(digits) THEN 0
    ELSE (IF double THEN DoubledDigitSum(digits[Len(digits) - k + 1])
          ELSE digits[Len(digits) - k + 1])
         + SumFromRight(digits, k + 2, double)

\* luhn_checksum: the last digit and every second digit before it count as
\* they are (odd_digits), the others doubled (even_digits).
luhn_checksum(s) ==
    LET digits == digits_of(StrOfInt(s))
    IN (SumFromRight(digits, 1, FALSE) + SumFromRight(digits, 2, TRUE)) % 10

\* Card.calculate_luhn_check_digit
calculate_luhn_check_digit(partial_number) ==
    (10 - luhn_checksum(partial_number)) % 10

SubStr(s, a, b) == [i \in 1..(b - a + 1) |-> s[a + i - 1]]

\* Card.generate_card_number with account_identifier the random digits.
generate_card_number(account_identifier) ==
    LET partial_number == bin_number \o account_identifier
        check_digit == calculate_luhn_check_digit(partial_number)
        full_number == partial_number \o <<DigitChar[check_digit + 1]>>
    IN SubStr(full_number, 1, 4) \o <<" ">> \o SubStr(full_number, 5, 8) \o <<" ">>
       \o SubStr(full_number, 9, 12) \o <<" ">> \o SubStr(full_number, 13, Len(full_number))

InitCardNumber ==
    /\ accounts = [a \in AccountIds |-> [user |-> Owner(a), available_balance |-> 0]]
    /\ transactions = <<>>
    /\ recurring = <<>>
    /\ now = StartDate
    /\ ticks = 0
    /\ response = Resp("none", "none", "none")
    /\ disputes = <<>>
    /\ cards = <<>>
    /\ card_number = EmptyRef
    /\ inflight = <<>>

\* Card.save of a new card: a card without a number gets a generated one.
CardSave(account_identifier) ==
    /\ card_number = EmptyRef
    /\ card_number' = generate_card_number(account_identifier)
    /\ response' = Resp("card_save", "none", "none")
    /\ UNCHANGED <<accounts, transactions, recurring, now, ticks, disputes, cards, inflight>>

NextCardNumber ==
    \E P \in NonZeroPositions : \E f \in [P -> DigitChars \ {"0"}] :
        CardSave(AccountIdentifier(P, f))

SpecCardNumber == InitCardNumber /\ [][NextCardNumber]_vars

\* The digits of a formatted card number, spaces dropped.
CardDigits(number) ==
    LET keep == SelectSeq(number, LAMBDA c : c \in DigitChars)
    IN [i \in 1..Len(keep) |-> IntOfChar(keep[i])]

\* The Luhn sum of a full number: from the right, every second digit
\* doubled (the doubled value's digits added), the others as they are.
LuhnSum(digits) == SumFromRight(digits, 1, FALSE) + SumFromRight(digits, 2, TRUE)

\* C13: every card number produced by Card.generate_card_number passes the
\* Luhn checksum: the 16-digit number 4532 + the 11 random digits + the
\* computed check digit has a Luhn sum divisible by 10.
C13_CardNumbersPassLuhn ==
    card_number # EmptyRef =>
        /\ Len(CardDigits(card_number)) = 16
        /\ LuhnSum(CardDigits(card_number)) % 10 = 0

\* A generated card number passes the Luhn checksum.
SomeCardNumberPassesLuhn ==
    /\ card_number # EmptyRef
    /\ LuhnSum(CardDigits(card_number)) % 10 = 0

\* ------------------------------------------------------------ execute
\* The step stored a pending copy of template r and stamped the template.
ExecutedOnce(r) ==
    /\ StoredNewRow
    /\ SubSeq(transactions', 1, Len(transactions)) = transactions
    /\ NewRow.status = "pending"
    /\ NewRow.from_account = recurring[r].from_account
    /\ NewRow.to_account = recurring[r].to_account
    /\ NewRow.amount = recurring[r].amount
    /\ recurring'[r].execution_count = recurring[r].execution_count + 1
    /\ recurring'[r].last_executed = now
    /\ recurring'[r].last_transaction = Len(transactions')

\* C14: each call of execute on a recurring transaction creates exactly one
\* new Transaction with status pending that copies the template's accounts
\* and amount, increases execution_count by exactly 1, sets last_executed to
\* the execution time and last_transaction to the new transaction.
C14_ExecuteCreatesOne ==
    [][\A user \in Users, r \in 1..Len(recurring) :
          (recurring[r].user = user /\ Execute(user, r)) => ExecutedOnce(r)]_vars

\* Whenever execute stores its transaction, it is one pending copy of the
\* template and the template is stamped.
StoredExecuteCreatesOne ==
    [][\A user \in Users, r \in 1..Len(recurring) :
          (recurring[r].user = user /\ Execute(user, r) /\ StoredNewRow)
          => ExecutedOnce(r)]_vars

\* ----------------------------------------------------------- schedule
\* The days the schedule of a template is exercised from: a month end
\* before a shorter month, a leap day, days before a year end.
ScheduleDates ==
    {StartDate, [y |-> 2023, m |-> 11, d |-> 30], [y |-> 2024, m |-> 2, d |-> 29],
     [y |-> 2024, m |-> 12, d |-> 25]}

\* One never executed template of each frequency, owned by the owner of
\* account 1, on each of the days.
InitSchedule ==
    /\ accounts = [a \in AccountIds |-> [user |-> Owner(a), available_balance |-> 0]]
    /\ transactions = <<>>
    /\ \E f \in FREQUENCY_CHOICES :
         recurring = <<[user |-> Owner(1), from_account |-> 1, to_account |-> NumAccounts,
                        amount |-> 1, frequency |-> f, next_execution |-> StartDate,
                        is_active |-> TRUE, execution_count |-> 0, max_executions |-> 1,
                        last_executed |-> NoDate, last_transaction |-> NULL]>>
    /\ now \in ScheduleDates
    /\ ticks = 0
    /\ response = Resp("none", "none", "none")
    /\ disputes = <<>>
    /\ cards = <<>>
    /\ card_number = EmptyRef
    /\ inflight = <<>>

NextSchedule ==
    \/ \E user \in Users, r \in 1..Len(recurring) : Execute(user, r)
    \/ Tick

SpecSchedule == InitSchedule /\ [][NextSchedule]_vars

DateLess(a, b) ==
    \/ a.y < b.y
    \/ a.y = b.y /\ a.m < b.m
    \/ a.y = b.y /\ a.m = b.m /\ a.d < b.d

FixedOffset(f) == IF f = "daily" THEN 1 ELSE IF f = "weekly" THEN 7 ELSE 14

IsCalendarSum(base, n, res) ==
    /\ res.m \in 1..12
    /\ res.y * 12 + (res.m - 1) = base.y * 12 + (base.m - 1) + n
    /\ res.d = Min(base.d, DaysInMonth(res.y, res.m))

CalendarMonths(f) == IF f = "monthly" THEN 1 ELSE IF f = "quarterly" THEN 3 ELSE 12

\* C16: for frequency monthly, quarterly and yearly the next execution is
\* last_executed plus 1 month, 3 months and 1 year by the calendar, the day
\* clamped to the last day of the target month: monthly with last_executed
\* 2024-01-31 yields next_execution 2024-02-29.
C16_CalendarAwareOffsets ==
    [][\A user \in Users, r \in 1..Len(recurring) :
          (recurring[r].user = user /\ Execute(user, r) /\ StoredNewRow)
          => LET rt == recurring'[r]
             IN /\ rt.frequency \in {"monthly", "quarterly", "yearly"}
                     => IsCalendarSum(rt.last_executed, CalendarMonths(rt.frequency),
                                      rt.next_execution)
                /\ (rt.frequency = "monthly" /\ rt.last_executed = StartDate)
                     => rt.next_execution = [y |-> 2024, m |-> 2, d |-> 29]]_vars

\* A monthly template executed on 2024-01-31 is next due on 2024-02-29.
C16_Witness ==
    /\ Len(recurring) = 1
    /\ recurring[1].frequency = "monthly"
    /\ recurring[1].last_executed = StartDate
    /\ recurring[1].next_execution = [y |-> 2024, m |-> 2, d |-> 29]

\* A quarterly template executed on 2023-11-30 is next due on the leap day,
\* a yearly one executed on the leap day on 2025-02-28.
ClampedQuarterAndYear ==
    /\ Len(recurring) = 1
    /\ \/ /\ recurring[1].frequency = "quarterly"
          /\ recurring[1].last_executed = [y |-> 2023, m |-> 11, d |-> 30]
          /\ recurring[1].next_execution = [y |-> 2024, m |-> 2, d |-> 29]
       \/ /\ recurring[1].frequency = "yearly"
          /\ recurring[1].last_executed = [y |-> 2024, m |-> 2, d |-> 29]
          /\ recurring[1].next_execution = [y |-> 2025, m |-> 2, d |-> 28]

\* --------------------------------------------------------------- cards
\* cards is the cards table. A nullable number is None or Some(v);
\* spending_limit and spent_amount are Decimal(15, 2) values in cents.
MaxLimit == 2

None == <<>>
Some(v) == <<v>>
Val(o) == o[1]

CARD_TYPES ==
    {"physical", "virtual", "virtual_single_use", "virtual_merchant_locked",
     "virtual_subscription"}
virtual_types ==
    {"virtual", "virtual_single_use", "virtual_merchant_locked", "virtual_subscription"}

\* The accounts of the card requests: the first is a checking account,
\* the others are savings accounts; all are active.
CardAccounts ==
    [a \in AccountIds |->
        [user |-> Owner(a), available_balance |-> 0,
         account_type |-> IF a = 1 THEN "checking" ELSE "savings", is_active |-> TRUE]]

\* The request bodies create_virtual is tried with.
VirtualCardBodies ==
    [card_type : {Missing, "physical", "virtual_single_use", "virtual_merchant_locked"},
     merchant_name : {Missing, "", "shop"},
     max_usage_count : {None, Some(1), Some(2)},
     account_id : AccountIds \cup {NULL}]

\* VirtualCardCreateSerializer without the merchant name rule.
VirtualCardValidateNoMerchantRule(body) ==
    IF body.card_type \notin CARD_TYPES THEN "card_type_choice"
    ELSE IF body.card_type \notin virtual_types THEN "card_type_not_virtual"
    ELSE "ok"

\* VirtualCardCreateSerializer: the card_type field (required, one of the
\* choices), validate_card_type, then validate.
VirtualCardValidate(body) ==
    IF body.card_type \notin CARD_TYPES THEN "card_type_choice"
    ELSE IF body.card_type \notin virtual_types THEN "card_type_not_virtual"
    ELSE IF body.card_type = "virtual_merchant_locked"
            /\ body.merchant_name \in {Missing, ""}
    THEN "merchant_name_required"
    ELSE "ok"

\* The card a serializer hands to Card.save. Neither serializer has the
\* fields expiry_month and expiry_year, which have no default.
NewCard(account, card_type, merchant_name, max_usage_count) ==
    [account |-> account, card_type |-> card_type,
     merchant_name |-> IF merchant_name = Missing THEN "" ELSE merchant_name,
     spending_limit |-> None, spent_amount |-> 0,
     max_usage_count |-> max_usage_count,
     expiry_month |-> None, expiry_year |-> None]

\* VirtualCardCreateSerializer.validate + save(account=): a single-use card
\* gets max_usage_count 1.
VirtualCardRow(account, body) ==
    NewCard(account, body.card_type, body.merchant_name,
            IF body.card_type = "virtual_single_use" THEN Some(1)
            ELSE body.max_usage_count)

\* CardCreateSerializer.save: account, card_type and nickname only.
CardCreateRow(account, card_type) == NewCard(account, card_type, Missing, None)

\* INSERT into cards: expiry_month and expiry_year are NOT NULL columns.
CardInsertViolation(row) == row.expiry_month = None \/ row.expiry_year = None

\* Account.objects.filter(user=, account_type='checking', is_active=True)
CheckingAccounts(user, accts) ==
    {a \in DOMAIN accts : /\ accts[a].user = user
                          /\ accts[a].account_type = "checking"
                          /\ accts[a].is_active}

FirstOf(S) == CHOOSE a \in S : \A b \in S : a <= b

\* A card as it exists in the table: issued with an expiry date, some of
\* its limit spent.
IssuedCards ==
    {[account |-> 1, card_type |-> ct, merchant_name |-> "",
      spending_limit |-> sl, spent_amount |-> sp,
      max_usage_count |-> IF ct = "virtual_single_use" THEN Some(1) ELSE None,
      expiry_month |-> Some(12), expiry_year |-> Some(2027)] :
        ct \in {"physical", "virtual", "virtual_single_use"},
        sp \in 0..MaxLimit,
        sl \in {None} \cup {Some(l) : l \in 0..MaxLimit}}

InitCards ==
    /\ accounts = CardAccounts
    /\ transactions = <<>>
    /\ recurring = <<>>
    /\ now = StartDate
    /\ ticks = 0
    /\ response = Resp("none", "none", "none")
    /\ disputes = <<>>
    /\ \E card \in IssuedCards :
         /\ card.spending_limit # None => Val(card.spending_limit) >= card.spent_amount
         /\ cards = <<card>>
    /\ card_number = EmptyRef
    /\ inflight = <<>>

\* The insert of a card row.
InsertCard(op, row) ==
    IF CardInsertViolation(row)
    THEN /\ response' = Resp(op, "IntegrityError", "none")
         /\ UNCHANGED cards
    ELSE /\ cards' = Append(cards, row)
         /\ response' = Resp(op, "none", "none")

\* POST /cards: CardCreateSerializer (validate_account), then save.
CreateCard(user, account, card_type) ==
    /\ IF card_type \notin CARD_TYPES
       THEN /\ response' = Resp("create_card", "ValidationError", "card_type_choice")
            /\ UNCHANGED cards
       ELSE IF account \notin DOMAIN accounts
       THEN /\ response' = Resp("create_card", "ValidationError", "account_required")
            /\ UNCHANGED cards
       ELSE IF accounts[account].user # user
       THEN /\ response' = Resp("create_card", "ValidationError", "account_not_owned")
            /\ UNCHANGED cards
       ELSE InsertCard("create_card", CardCreateRow(account, card_type))
    /\ UNCHANGED <<accounts, transactions, recurring, now, ticks, disputes, card_number, inflight>>

\* POST /cards/create_virtual
CreateVirtual(user, body) ==
    /\ LET err == VirtualCardValidate(body)
           checking == CheckingAccounts(user, accounts)
       IN IF err # "ok"
          THEN /\ response' = Resp("create_virtual", "ValidationError", err)
               /\ UNCHANGED cards
          ELSE IF body.account_id # NULL
          THEN IF accounts[body.account_id].user # user
               THEN /\ response' = Resp("create_virtual", "NotFound", "ACCOUNT_NOT_FOUND")
                    /\ UNCHANGED cards
               ELSE InsertCard("create_virtual", VirtualCardRow(body.account_id, body))
          ELSE IF checking = {}
               THEN /\ response' = Resp("create_virtual", "BadRequest", "NO_ELIGIBLE_ACCOUNT")
                    /\ UNCHANGED cards
               ELSE InsertCard("create_virtual", VirtualCardRow(FirstOf(checking), body))
    /\ UNCHANGED <<accounts, transactions, recurring, now, ticks, disputes, card_number, inflight>>

\* spending_limit < card.spent_amount: never.
LimitTooLowNever(spending_limit, card) == FALSE

\* spending_limit < card.spent_amount
LimitTooLow(spending_limit, card) == Val(spending_limit) < card.spent_amount

\* PATCH /cards/{c}/update_limits with the spending_limit of the body, None
\* when the body carries none.
UpdateLimits(user, c, spending_limit) ==
    /\ IF accounts[cards[c].account].user # user
       THEN /\ response' = Resp("update_limits", "NotFound", "none")
            /\ UNCHANGED cards
       ELSE IF cards[c].card_type \notin virtual_types
       THEN /\ response' = Resp("update_limits", "BadRequest", "INVALID_CARD_TYPE")
            /\ UNCHANGED cards
       ELSE IF spending_limit # None /\ LimitTooLow(spending_limit, cards[c])
       THEN /\ response' = Resp("update_limits", "BadRequest", "LIMIT_TOO_LOW")
            /\ UNCHANGED cards
       ELSE IF spending_limit # None
       THEN /\ cards' = [cards EXCEPT ![c].spending_limit = spending_limit]
            /\ response' = Resp("update_limits", "none", "none")
       ELSE /\ response' = Resp("update_limits", "none", "none")
            /\ UNCHANGED cards
    /\ UNCHANGED <<accounts, transactions, recurring, now, ticks, disputes, card_number, inflight>>

NextCards ==
    \/ \E user \in Users, account \in AccountIds \cup {NULL},
          card_type \in {Missing, "physical", "virtual_single_use"} :
          CreateCard(user, account, card_type)
    \/ \E user \in Users, body \in VirtualCardBodies : CreateVirtual(user, body)
    \/ \E user \in Users, c \in 1..Len(cards),
          spending_limit \in {None} \cup {Some(l) : l \in 0..MaxLimit} :
          UpdateLimits(user, c, spending_limit)

SpecCards == InitCards /\ [][NextCards]_vars

\* C17: a virtual-card creation request with card_type
\* virtual_merchant_locked and an empty or missing merchant_name is rejected
\* with a validation error and creates no card.
C17_MerchantNameRequired ==
    [][\/ /\ response' = Resp("create_virtual", "ValidationError", "merchant_name_required")
          /\ cards' = cards
       \/ \A user \in Users, body \in VirtualCardBodies :
             (/\ body.card_type = "virtual_merchant_locked"
              /\ body.merchant_name \in {Missing, ""})
             => ~CreateVirtual(user, body)]_vars

\* A merchant-locked request without a merchant name was rejected.
C17_Witness ==
    response = Resp("create_virtual", "ValidationError", "merchant_name_required")

\* The step stored one new card with max_usage_count 1.
StoredSingleUseCard ==
    /\ Len(cards') = Len(cards) + 1
    /\ cards'[Len(cards')].card_type = "virtual_single_use"
    /\ cards'[Len(cards')].max_usage_count = Some(1)

\* C18: every card-creation request (create or create_virtual) for a card
\* of type virtual_single_use that passes validation stores a card with
\* max_usage_count = 1, whatever max_usage_count the request supplied.
C18_SingleUseStoredWithOneUse ==
    [][/\ \A user \in Users, account \in AccountIds :
            (accounts[account].user = user
             /\ CreateCard(user, account, "virtual_single_use"))
            => StoredSingleUseCard
       /\ \A user \in Users, body \in VirtualCardBodies :
            (/\ body.card_type = "virtual_single_use"
             /\ body.account_id # NULL
             /\ accounts[body.account_id].user = user
             /\ CreateVirtual(user, body))
            => StoredSingleUseCard]_vars

\* The card each serializer hands to Card.save for a virtual_single_use
\* request has max_usage_count 1.
SingleUseRowsHaveOneUse ==
    /\ \A account \in AccountIds :
          CardCreateRow(account, "virtual_single_use").max_usage_count = Some(1)
    /\ \A body \in VirtualCardBodies :
          body.card_type = "virtual_single_use"
          => VirtualCardRow(1, body).max_usage_count = Some(1)

\* The card create_virtual hands to Card.save for a virtual_single_use
\* request has max_usage_count 1.
VirtualSingleUseRowsHaveOneUse ==
    \A body \in VirtualCardBodies :
        body.card_type = "virtual_single_use"
        => VirtualCardRow(1, body).max_usage_count = Some(1)

\* No card is ever added to the table.
NoCardStored == [][Len(cards') = Len(cards)]_vars

AcceptedLimitStored ==
    /\ response = Resp("update_limits", "none", "none")
    /\ Len(cards) = 1
    /\ cards[1].spending_limit = Some(MaxLimit)
    /\ cards[1].spent_amount = 1

\* ------------------------------------------------------ account creation
\* Here accounts is the accounts table as a bag of rows (user,
\* account_type, currency): rows have random primary keys and no order.
MaxAccountsPerUser == 10

ACCOUNT_TYPES == {"checking", "savings", "investment", "crypto", "business"}
CURRENCY_CHOICES == {"USD", "EUR", "GBP", "ETH", "BTC", "USDC", "USDT"}

\* The account types and currencies the creation requests carry.
RequestAccountTypes == {"checking", "savings", "bogus"}
RequestCurrencies == {"USD", "GBP", "ETH"}

AccountRow(user, account_type, currency) ==
    [user |-> user, account_type |-> account_type, currency |-> currency]

\* The accounts the first user has opened already: one of every type in
\* USD and three in EUR.
OpenedAccounts ==
    {AccountRow("u1", ty, "USD") : ty \in ACCOUNT_TYPES}
    \cup {AccountRow("u1", ty, "EUR") : ty \in {"checking", "savings", "investment"}}

\* Account.objects.filter(user=, account_type=, currency=).exists()
AccountExists(tbl, user, account_type, currency) ==
    BagIn(AccountRow(user, account_type, currency), tbl)

\* user.accounts.count()
AccountCount(tbl, user) ==
    LET own == {row \in BagToSet(tbl) : row.user = user}
    IN BagCardinality([row \in own |-> CopiesIn(row, tbl)])

\* AccountCreateSerializer without the limit on the number of accounts.
AccountValidateNoLimit(tbl, user, account_type, currency) ==
    IF account_type \notin ACCOUNT_TYPES THEN "account_type_choice"
    ELSE IF currency \notin CURRENCY_CHOICES THEN "currency_choice"
    ELSE IF AccountExists(tbl, user, account_type, currency) THEN "already_exists"
    ELSE "ok"

\* AccountCreateSerializer without the look for an account of the same type
\* and currency.
AccountValidateNoExistsCheck(tbl, user, account_type, currency) ==
    IF account_type \notin ACCOUNT_TYPES THEN "account_type_choice"
    ELSE IF currency \notin CURRENCY_CHOICES THEN "currency_choice"
    ELSE IF AccountCount(tbl, user) >= MaxAccountsPerUser THEN "max_accounts"
    ELSE "ok"

\* AccountCreateSerializer: the choice fields, then validate.
AccountValidate(tbl, user, account_type, currency) ==
    IF account_type \notin ACCOUNT_TYPES THEN "account_type_choice"
    ELSE IF currency \notin CURRENCY_CHOICES THEN "currency_choice"
    ELSE IF AccountExists(tbl, user, account_type, currency) THEN "already_exists"
    ELSE IF AccountCount(tbl, user) >= MaxAccountsPerUser THEN "max_accounts"
    ELSE "ok"

\* unique_together (user, account_type, currency)
AccountUniqueTogetherViolation(tbl, row) == BagIn(row, tbl)

InitAccounts ==
    /\ accounts = SetToBag(OpenedAccounts)
    /\ transactions = <<>>
    /\ recurring = <<>>
    /\ now = StartDate
    /\ ticks = 0
    /\ response = Resp("none", "none", "none")
    /\ disputes = <<>>
    /\ cards = <<>>
    /\ card_number = EmptyRef
    /\ inflight = <<>>

\* POST /accounts: AccountCreateSerializer.validate, then create. The
\* generated account_number is 10 random digits on a unique column: with
\* another account in the table the draw can collide.
CreateAccount(user, account_type, currency) ==
    /\ LET err == AccountValidate(accounts, user, account_type, currency)
           row == AccountRow(user, account_type, currency)
       IN IF err # "ok"
          THEN /\ response' = Resp("create_account", "ValidationError", err)
               /\ UNCHANGED accounts
          ELSE \E collides \in {FALSE} \cup {accounts # EmptyBag} :
                 IF collides \/ AccountUniqueTogetherViolation(accounts, row)
                 THEN /\ response' = Resp("create_account", "IntegrityError", "none")
                      /\ UNCHANGED accounts
                 ELSE /\ accounts' = accounts (+) SetToBag({row})
                      /\ response' = Resp("create_account", "none", "none")
    /\ UNCHANGED <<transactions, recurring, now, ticks, disputes, cards, card_number, inflight>>

NextAccounts ==
    \E user \in Users, account_type \in RequestAccountTypes, currency \in RequestCurrencies :
        CreateAccount(user, account_type, currency)

SpecAccounts == InitAccounts /\ [][NextAccounts]_vars

\* No user owns two accounts with the same (account_type, currency) and no
\* user owns more than 10 accounts.
AccountRulesHold(tbl) ==
    /\ \A row \in BagToSet(tbl) : CopiesIn(row, tbl) = 1
    /\ \A user \in Users : AccountCount(tbl, user) <= MaxAccountsPerUser

\* C20: after any sequence of account-creation requests executed one at a
\* time, no user owns two accounts with the same (account_type, currency)
\* and no user owns more than 10 accounts; a request that would break either
\* rule fails with a ValidationError and creates no account.
C20_AccountRules ==
    [][/\ AccountRulesHold(accounts')
       /\ \/ /\ response'.op = "create_account"
             /\ response'.error = "ValidationError"
             /\ accounts' = accounts
          \/ \A user \in Users, account_type \in ACCOUNT_TYPES,
                currency \in CURRENCY_CHOICES :
                ~AccountRulesHold(
                    accounts (+) SetToBag({AccountRow(user, account_type, currency)}))
                => ~CreateAccount(user, account_type, currency)]_vars

\* An eleventh account was refused to a user who owns ten, two of them
\* created by request.
C20_Witness ==
    /\ response = Resp("create_account", "ValidationError", "max_accounts")
    /\ AccountCount(accounts, "u1") = MaxAccountsPerUser
    /\ BagIn(AccountRow("u1", "checking", "GBP"), accounts)

\* A second account of the same type and currency was refused.
DuplicateAccountRefused ==
    /\ response = Resp("create_account", "ValidationError", "already_exists")
    /\ BagIn(AccountRow("u2", "savings", "ETH"), accounts)

\* --------------------------------------------------------------- limits
\* The limit rows of an account are kept with the account: limits are its
\* AccountLimit rows (account.limits), transaction_limits the
\* TransactionLimit rows that name it.
AccountLimitRows(used) ==
    <<[limit_type |-> "daily_withdraw", limit_amount |-> 1, used_amount |-> used,
       reset_period |-> "daily", last_reset |-> StartDate]>>

TransactionLimitRows(used) ==
    <<[limit_type |-> "daily_amount", limit_value |-> 1, used_value |-> used,
       reset_date |-> StartDate, is_active |-> TRUE]>>

\* Account 1 holds one unit and has one limit of each kind, both used up or
\* both unused; one recurring template draws on it.
InitLimits ==
    /\ \E used \in 0..1 :
         accounts = [a \in AccountIds |->
            [user |-> Owner(a), available_balance |-> IF a = 1 THEN 1 ELSE 0,
             limits |-> IF a = 1 THEN AccountLimitRows(used) ELSE <<>>,
             transaction_limits |-> IF a = 1 THEN TransactionLimitRows(used) ELSE <<>>]]
    /\ transactions = <<>>
    /\ recurring \in InitRecurring
    /\ now = StartDate
    /\ ticks = 0
    /\ response = Resp("none", "none", "none")
    /\ disputes = <<>>
    /\ cards = <<>>
    /\ card_number = EmptyRef
    /\ inflight = <<>>

NextLimits ==
    \/ \E user \in Users, from \in AccountIds \cup {NULL}, to \in AccountIds \cup {NULL},
          amount \in Amounts : CreateTransaction(user, from, to, amount)
    \/ \E user \in Users, r \in 1..Len(recurring) : Execute(user, r)

SpecLimits == InitLimits /\ [][NextLimits]_vars

\* The request fails one of the three checks of validate.
FailsAccountChecks(user, from, amount) ==
    \/ from # NULL /\ accounts[from].user # user
    \/ from # NULL /\ accounts[from].available_balance < amount
    \/ amount <= 0

\* C21: create_transaction and execute never change used_amount, used_value
\* or the reset fields of any AccountLimit or TransactionLimit, and no
\* create_transaction request that passes the ownership, funds and amount
\* checks is refused: no limit is consulted, so a transfer is accepted even
\* when a limit of the source account is exceeded.
C21_LimitsPassive ==
    [][/\ \A a \in AccountIds :
            /\ accounts'[a].limits = accounts[a].limits
            /\ accounts'[a].transaction_limits = accounts[a].transaction_limits
       /\ \/ response'.error # "ValidationError"
          \/ \A user \in Users, from \in AccountIds \cup {NULL},
                to \in AccountIds \cup {NULL}, amount \in Amounts :
                ~FailsAccountChecks(user, from, amount)
                => ~CreateTransaction(user, from, to, amount)]_vars

\* A transfer out of account 1 was stored and debited while both limits of
\* the account are exceeded.
C21_Witness ==
    /\ is_limit_exceeded(accounts[1].limits[1])
    /\ is_exceeded(accounts[1].transaction_limits[1])
    /\ \E i \in 1..Len(transactions) : transactions[i].from_account = 1
    /\ accounts[1].available_balance = 0

\* ------------------------------------------- concurrent create_transaction
\* Two POST /transactions requests served by two workers. No line of the
\* creation path opens transaction.atomic or uses select_for_update, so the
\* queries of the two requests interleave freely. inflight[p] is the request
\* worker p is serving: its position, its body, and the Account objects its
\* serializer loaded (PrimaryKeyRelatedField fetches them before validate).
Procs == 1..2

NoAccount == [user |-> "", available_balance |-> 0]

IdleRequest ==
    [pc |-> "idle", user |-> "", from |-> NULL, to |-> NULL, amount |-> 0,
     from_obj |-> NoAccount, to_obj |-> NoAccount, read_balance |-> 0,
     txn |-> NULL, error |-> "none"]

\* from_account.save() as a single UPDATE that subtracts in the database.
SaveFromAccountAtomic(accts, from, from_obj, amount) ==
    [accts EXCEPT ![from].available_balance = @ - amount]

\* _process_transaction, lines 85-86: the subtraction is done on the object
\* loaded earlier and save() writes the whole row of that object.
SaveFromAccount(accts, from, from_obj, amount) ==
    [accts EXCEPT ![from] = [from_obj EXCEPT !.available_balance = @ - amount]]

\* _process_transaction, lines 90-91
SaveToAccount(accts, to, to_obj, amount) ==
    [accts EXCEPT ![to] = [to_obj EXCEPT !.available_balance = @ + amount]]

InitRace ==
    /\ \E b \in 1..MaxBalance :
         accounts = [a \in AccountIds |->
            [user |-> Owner(a), available_balance |-> IF a = 1 THEN b ELSE 0]]
    /\ transactions = <<>>
    /\ recurring = <<>>
    /\ now = StartDate
    /\ ticks = 0
    /\ response = Resp("none", "none", "none")
    /\ disputes = <<>>
    /\ cards = <<>>
    /\ card_number = EmptyRef
    /\ inflight = [p \in Procs |-> IdleRequest]

\* The request arrives: the serializer loads the two accounts and validates.
RaceValidate(p, user, from, to, amount) ==
    /\ inflight[p].pc = "idle"
    /\ LET err == Validate(user, from, to, amount, accounts)
           req == [inflight[p] EXCEPT
                      !.user = user, !.from = from, !.to = to, !.amount = amount,
                      !.from_obj = IF from # NULL THEN accounts[from] ELSE NoAccount,
                      !.to_obj = IF to # NULL THEN accounts[to] ELSE NoAccount,
                      !.read_balance = IF from # NULL
                                       THEN accounts[from].available_balance ELSE 0]
       IN IF err # "ok"
          THEN /\ inflight' = [inflight EXCEPT ![p] =
                      [req EXCEPT !.pc = "done", !.error = "ValidationError"]]
               /\ response' = Resp("create_transaction", "ValidationError", err)
          ELSE /\ inflight' = [inflight EXCEPT ![p] = [req EXCEPT !.pc = "validated"]]
               /\ UNCHANGED response
    /\ UNCHANGED <<accounts, transactions, recurring, now, ticks, disputes, cards,
                   card_number>>

\* create, line 74: Transaction.objects.create inserts the row.
RaceInsert(p) ==
    /\ inflight[p].pc = "validated"
    /\ \E rnd \in 0..MaxRand :
         LET req == inflight[p]
             row == TransactionSave(
                        NewTransaction(req.from, req.to, req.amount, "pending"), now, rnd)
         IN IF UniqueViolation(transactions, row)
            THEN /\ inflight' = [inflight EXCEPT ![p] =
                        [req EXCEPT !.pc = "done", !.error = "IntegrityError"]]
                 /\ response' = Resp("create_transaction", "IntegrityError", "none")
                 /\ UNCHANGED transactions
            ELSE /\ Len(transactions) < MaxTxns
                 /\ transactions' = Append(transactions, row)
                 /\ inflight' = [inflight EXCEPT ![p] =
                        [req EXCEPT !.pc = "inserted", !.txn = Len(transactions) + 1]]
                 /\ UNCHANGED response
    /\ UNCHANGED <<accounts, recurring, now, ticks, disputes, cards, card_number>>

\* _process_transaction, lines 83-86
RaceDebit(p) ==
    /\ inflight[p].pc = "inserted"
    /\ LET req == inflight[p]
       IN IF req.from # NULL
          THEN /\ accounts' = SaveFromAccount(accounts, req.from, req.from_obj, req.amount)
               /\ inflight' = [inflight EXCEPT ![p] =
                      [req EXCEPT !.pc = "debited",
                                  !.from_obj.available_balance = @ - req.amount]]
          ELSE /\ inflight' = [inflight EXCEPT ![p].pc = "debited"]
               /\ UNCHANGED accounts
    /\ UNCHANGED <<transactions, recurring, now, ticks, response, disputes, cards,
                   card_number>>

\* _process_transaction, lines 88-96: the credit, then the status update that
\* stops at timezone.now().
RaceCredit(p) ==
    /\ inflight[p].pc = "debited"
    /\ LET req == inflight[p]
       IN /\ IF req.to # NULL
             THEN /\ req.to_obj.available_balance + req.amount <= MaxBalance
                  /\ accounts' = SaveToAccount(accounts, req.to, req.to_obj, req.amount)
             ELSE UNCHANGED accounts
          /\ transactions' = [transactions EXCEPT ![req.txn] = ProcessStatus(@, now)]
          /\ inflight' = [inflight EXCEPT ![p] =
                 [req EXCEPT !.pc = "done", !.error = ProcessError,
                             !.to_obj.available_balance =
                                 IF req.to # NULL THEN @ + req.amount ELSE @]]
          /\ response' = Resp("create_transaction", ProcessError, "none")
    /\ UNCHANGED <<recurring, now, ticks, disputes, cards, card_number>>

NextRace ==
    \/ \E p \in Procs, user \in Users, from \in AccountIds \cup {NULL},
          to \in AccountIds \cup {NULL}, amount \in Amounts :
          RaceValidate(p, user, from, to, amount)
    \/ \E p \in Procs : RaceInsert(p)
    \/ \E p \in Procs : RaceDebit(p)
    \/ \E p \in Procs : RaceCredit(p)

SpecRace == InitRace /\ [][NextRace]_vars

\* Request p went through validation, insert, debit and credit.
Processed(p) ==
    /\ inflight[p].pc = "done"
    /\ inflight[p].error \notin {"ValidationError", "IntegrityError"}

\* Both requests debit account a, neither credits it, and both validated
\* against the same balance of a.
RacedOn(a) ==
    /\ \A p \in Procs :
         /\ Processed(p)
         /\ inflight[p].from = a
         /\ inflight[p].to # a
    /\ inflight[1].read_balance = inflight[2].read_balance

\* C22: when two concurrent create_transaction requests on the same account
\* have both read its balance before either wrote it, the balance left at the
\* end is the balance read minus the amount of one request only: the other
\* debit is lost, and the result differs from that of the two requests run one
\* after the other.
C22_ConcurrentDebitsRace ==
    \A a \in AccountIds :
       RacedOn(a) =>
          /\ \E p \in Procs :
                accounts[a].available_balance =
                    inflight[p].read_balance - inflight[p].amount
          /\ accounts[a].available_balance #
                inflight[1].read_balance - inflight[1].amount - inflight[2].amount

\* Two transfers of one unit out of a balance of two: sequentially the balance
\* ends at zero, here it ends at one.
C22_Witness ==
    /\ RacedOn(1)
    /\ inflight[1].read_balance >= inflight[1].amount + inflight[2].amount
    /\ accounts[1].available_balance >
          inflight[1].read_balance - inflight[1].amount - inflight[2].amount
    /\ Len(transactions) = 2

\* ------------------------------------------------ PATCH /transactions/{t}
\* TransactionViewSet is a ModelViewSet and serves update and partial_update
\* with TransactionSerializer, whose read_only_fields leave status, amount,
\* currency, transaction_type, from_account and to_account writable. A body
\* names the fields it changes; a field it leaves out keeps its value.
PatchBodies ==
    [status : {Missing} \cup PatchStatuses,
     amount : {None} \cup {Some(a) : a \in 0..MaxAmount},
     to_account : {None, Some(NULL)}]

\* ModelSerializer.update: setattr for every validated field.
ApplyPatch(txn, body) ==
    [txn EXCEPT
        !.status = IF body.status = Missing THEN @ ELSE body.status,
        !.amount = IF body.amount = None THEN @ ELSE Val(body.amount),
        !.to_account = IF body.to_account = None THEN @ ELSE Val(body.to_account)]

\* partial_update: get_object over get_queryset, then ModelSerializer.update,
\* which ends in Transaction.save. No balance is touched.
PatchTransaction(user, t, body) ==
    /\ \E rnd \in 0..MaxRand :
         IF ~VisibleTo(user, transactions[t], accounts)
         THEN /\ response' = Resp("partial_update", "NotFound", "none")
              /\ UNCHANGED transactions
         ELSE /\ transactions' = [transactions EXCEPT ![t] =
                     TransactionSave(ApplyPatch(@, body), now, rnd)]
              /\ response' = Resp("partial_update", "none", "none")
    /\ UNCHANGED <<accounts, recurring, now, ticks, disputes, cards, card_number, inflight>>

NextPatch ==
    \/ \E user \in Users, from \in AccountIds \cup {NULL}, to \in AccountIds \cup {NULL},
          amount \in Amounts : CreateTransaction(user, from, to, amount)
    \/ \E user \in Users, t \in 1..Len(transactions), body \in PatchBodies :
          PatchTransaction(user, t, body)

SpecPatch == Init /\ [][NextPatch]_vars

\* C23: a stored transaction keeps its amount, its two accounts and its
\* reference number through every step of the transaction API.
C23_IdentityImmutable ==
    [][\A t \in 1..Len(transactions) :
          /\ transactions'[t].amount = transactions[t].amount
          /\ transactions'[t].from_account = transactions[t].from_account
          /\ transactions'[t].to_account = transactions[t].to_account
          /\ transactions'[t].reference_number = transactions[t].reference_number]_vars

\* ----------------------------------------------------- status lifecycle
FinalStatuses == {"completed", "failed", "cancelled", "disputed", "refunded"}

LifecycleStep(old, new) ==
    \/ new = old
    \/ old = "pending" /\ new = "processing"
    \/ old = "processing" /\ new \in FinalStatuses

\* C24: a transaction is stored as pending, and every later change of its
\* status goes from pending to processing or from processing to one of the
\* final statuses; a final status is never left.
C24_StatusLifecycle ==
    [][/\ \A t \in 1..Len(transactions) :
             LifecycleStep(transactions[t].status, transactions'[t].status)
       /\ Len(transactions') > Len(transactions)
             => transactions'[Len(transactions')].status = "pending"]_vars

\* ------------------------------------------------------- repeated request
\* A transaction with the body (from, to, amount) is already stored.
SentBefore(from, to, amount) ==
    \E i \in 1..Len(transactions) :
       /\ transactions[i].from_account = from
       /\ transactions[i].to_account = to
       /\ transactions[i].amount = amount

\* C25: a valid create_transaction request that repeats the body of a stored
\* transaction stores one more transaction, under a reference number no
\* stored transaction has, and moves the amount once more.
C25_RepeatStoresAgain ==
    [][\A user \in Users, from \in AccountIds \cup {NULL},
          to \in AccountIds \cup {NULL}, amount \in Amounts :
          (/\ SentBefore(from, to, amount)
           /\ from # to
           /\ Validate(user, from, to, amount, accounts) = "ok"
           /\ CreateTransaction(user, from, to, amount))
          => /\ StoredNewRow
             /\ \A i \in 1..Len(transactions) :
                   transactions[i].reference_number # NewRow.reference_number
             /\ from # NULL =>
                   accounts'[from].available_balance =
                       accounts[from].available_balance - amount
             /\ to # NULL =>
                   accounts'[to].available_balance =
                       accounts[to].available_balance + amount]_vars

\* --------------------------------------------- execute without conditions
\* The template that execute is called on: active or switched off, with or
\* without an end date (the end date is the first day, so that it is past
\* after one tick), drawing on an account of its owner or of the other user.
\* No account holds the amount of the template.
InitExecute ==
    /\ accounts = [a \in AccountIds |->
          [user |-> Owner(a), available_balance |-> 0, ledger_balance |-> 0,
           pending_balance |-> 0]]
    /\ transactions = <<>>
    /\ \E active \in BOOLEAN, end \in {NoDate, StartDate}, from \in AccountIds :
         recurring = <<[user |-> Owner(1), from_account |-> from, to_account |-> NULL,
                        amount |-> 1, frequency |-> "monthly",
                        start_date |-> StartDate, end_date |-> end,
                        next_execution |-> StartDate, is_active |-> active,
                        execution_count |-> 0, max_executions |-> 1,
                        last_executed |-> NoDate, last_transaction |-> NULL]>>
    /\ now = StartDate
    /\ ticks = 0
    /\ response = Resp("none", "none", "none")
    /\ disputes = <<>>
    /\ cards = <<>>
    /\ card_number = EmptyRef
    /\ inflight = <<>>

\* PATCH /recurring-transactions/{r} with is_active: the field is writable in
\* RecurringTransactionSerializer.
UpdateRecurring(user, r, active) ==
    /\ IF recurring[r].user # user
       THEN /\ response' = Resp("update_recurring", "NotFound", "none")
            /\ UNCHANGED recurring
       ELSE /\ recurring' = [recurring EXCEPT ![r].is_active = active]
            /\ response' = Resp("update_recurring", "none", "none")
    /\ UNCHANGED <<accounts, transactions, now, ticks, disputes, cards, card_number,
                   inflight>>

NextExecute ==
    \/ \E user \in Users, r \in 1..Len(recurring) : Execute(user, r)
    \/ \E user \in Users, r \in 1..Len(recurring), active \in BOOLEAN :
          UpdateRecurring(user, r, active)
    \/ Tick

SpecExecute == InitExecute /\ [][NextExecute]_vars

\* The execution time is past the end date of the template.
EndDatePassed(rt) == rt.end_date # NoDate /\ DateLess(rt.end_date, now)

\* C26: is_active of a template changes only in a step of the manual update;
\* execute leaves it as it is, whatever execution_count, max_executions and
\* end_date are.
C26_OnlyManualUpdateChangesActive ==
    [][\A r \in 1..Len(recurring) :
          recurring'[r].is_active # recurring[r].is_active
          => /\ response'.op = "update_recurring"
             /\ \E user \in Users : UpdateRecurring(user, r, recurring'[r].is_active)]_vars

\* A template still active after an execute that took execution_count to
\* max_executions, past its end date.
C26_Witness ==
    /\ recurring[1].is_active
    /\ recurring[1].last_executed = now
    /\ recurring[1].execution_count >= recurring[1].max_executions
    /\ EndDatePassed(recurring[1])
    /\ response.op = "execute"

\* C27: every execute called by the owner of the template stores a
\* transaction and adds one to execution_count, whether or not the template
\* is active, has reached max_executions or is past its end date.
C27_ExecuteAlwaysRuns ==
    [][\A user \in Users, r \in 1..Len(recurring) :
          (recurring[r].user = user /\ Execute(user, r))
          => /\ StoredNewRow
             /\ recurring'[r].execution_count = recurring[r].execution_count + 1]_vars

\* C28: execute leaves the three balances of every account as they are, and
\* the transaction it stores is pending with processed_at null; the owner of
\* the template is never refused, whoever owns the source account and
\* whatever it holds.
C28_ExecuteMovesNoMoney ==
    [][(\E user \in Users, r \in 1..Len(recurring) : Execute(user, r))
       => /\ \A a \in AccountIds :
               /\ accounts'[a].available_balance = accounts[a].available_balance
               /\ accounts'[a].ledger_balance = accounts[a].ledger_balance
               /\ accounts'[a].pending_balance = accounts[a].pending_balance
          /\ StoredNewRow =>
               /\ NewRow.status = "pending"
               /\ NewRow.processed_at = NoDate
          /\ response'.error \in {"none", "NotFound", "IntegrityError"}]_vars

\* An execute stored a transaction of one unit out of an account that holds
\* nothing and belongs to another user than the caller.
C28_Witness ==
    /\ response = Resp("execute", "none", "none")
    /\ Len(transactions) > 0
    /\ LET txn == transactions[Len(transactions)]
       IN /\ txn.from_account # NULL
          /\ accounts[txn.from_account].user # recurring[1].user
          /\ accounts[txn.from_account].available_balance < txn.amount
          /\ txn.status = "pending"
          /\ txn.processed_at = NoDate

\* ------------------------------------------------- non-negative balances
\* C29: every account starts with a non-negative available_balance, and
\* after any sequence of create_transaction requests served one after the
\* other the available_balance of every account is still non-negative.
C29_BalancesNonNegative ==
    \A a \in AccountIds : accounts[a].available_balance >= 0

\* A stored transfer has taken the balance of its source account down to
\* exactly zero.
C29_Witness ==
    \E i \in 1..Len(transactions) :
       /\ transactions[i].from_account # NULL
       /\ transactions[i].from_account # transactions[i].to_account
       /\ transactions[i].amount > 0
       /\ accounts[transactions[i].from_account].available_balance = 0
       /\ response.op = "create_transaction"

\* ------------------------------------------------------ concurrent dispute
\* Two POST /transactions/{t}/dispute requests served by two workers. The
\* view reads (get_object, hasattr, is_valid) and then inserts; nothing holds
\* a lock between the two, so the reads of one request can fall before the
\* insert of the other.
IdleDispute ==
    [pc |-> "idle", user |-> "", transaction |-> NULL,
     body |-> [reason |-> Missing, status |-> Missing, description |-> ""],
     error |-> "none"]

InitDisputeRace ==
    /\ accounts = [a \in AccountIds |-> [user |-> Owner(a), available_balance |-> 1]]
    /\ transactions = DisputedTransactions
    /\ recurring = <<>>
    /\ now = StartDate
    /\ ticks = 0
    /\ response = Resp("none", "none", "none")
    /\ disputes = <<>>
    /\ cards = <<>>
    /\ card_number = EmptyRef
    /\ inflight = [p \in Procs |-> IdleDispute]

\* dispute, lines 144-156: get_object, the hasattr test and is_valid.
DisputeCheck(p, user, t, body) ==
    /\ inflight[p].pc = "idle"
    /\ LET req == [inflight[p] EXCEPT !.user = user, !.transaction = t, !.body = body]
           err == IF ~VisibleTo(user, transactions[t], accounts) THEN "NotFound"
                  ELSE IF HasDispute(disputes, t) THEN "Conflict"
                  ELSE IF ~DisputeIsValid(body) THEN "BadRequest"
                  ELSE "none"
       IN IF err # "none"
          THEN /\ inflight' = [inflight EXCEPT ![p] =
                      [req EXCEPT !.pc = "done", !.error = err]]
               /\ response' = Resp("dispute", err,
                                   IF err = "Conflict" THEN "DISPUTE_EXISTS"
                                   ELSE IF err = "BadRequest" THEN "VALIDATION_ERROR"
                                   ELSE "none")
          ELSE /\ inflight' = [inflight EXCEPT ![p] = [req EXCEPT !.pc = "checked"]]
               /\ UNCHANGED response
    /\ UNCHANGED <<accounts, transactions, recurring, now, ticks, disputes, cards,
                   card_number>>

\* dispute, lines 157-164: serializer.save inserts the row.
DisputeInsert(p) ==
    /\ inflight[p].pc = "checked"
    /\ LET req == inflight[p]
       IN IF DisputeUniqueViolation(disputes, req.transaction)
          THEN /\ inflight' = [inflight EXCEPT ![p] =
                      [req EXCEPT !.pc = "done", !.error = "IntegrityError"]]
               /\ response' = Resp("dispute", "IntegrityError", "none")
               /\ UNCHANGED disputes
          ELSE /\ disputes' = Append(disputes,
                                     NewDispute(req.transaction, req.user, req.body))
               /\ inflight' = [inflight EXCEPT ![p].pc = "done"]
               /\ response' = Resp("dispute", "none", "none")
    /\ UNCHANGED <<accounts, transactions, recurring, now, ticks, cards, card_number>>

NextDisputeRace ==
    \/ \E p \in Procs, user \in Users, t \in 1..Len(transactions),
          body \in DisputeBodies : DisputeCheck(p, user, t, body)
    \/ \E p \in Procs : DisputeInsert(p)

SpecDisputeRace == InitDisputeRace /\ [][NextDisputeRace]_vars

\* C30: under every interleaving of the two dispute requests, no transaction
\* has two stored disputes, a stored dispute never changes, and a request
\* either ends by storing its dispute or ends with an error and leaves the
\* stored disputes as they are.
C30_AtMostOneDispute ==
    [][/\ \A i, j \in 1..Len(disputes') :
             i # j => disputes'[i].transaction # disputes'[j].transaction
       /\ Len(disputes') >= Len(disputes)
       /\ SubSeq(disputes', 1, Len(disputes)) = disputes
       /\ \A p \in Procs :
             (inflight[p].pc # "done" /\ inflight'[p].pc = "done")
             => LET req == inflight'[p]
                IN \/ /\ req.error = "none"
                      /\ response'.error = "none"
                      /\ disputes' = Append(disputes,
                            NewDispute(req.transaction, req.user, req.body))
                   \/ /\ req.error # "none"
                      /\ response'.error = req.error
                      /\ disputes' = disputes]_vars

\* Both requests passed the hasattr test on the same transaction; one stored
\* its dispute, the other ended with IntegrityError.
C30_Witness ==
    /\ inflight[1].pc = "done"
    /\ inflight[2].pc = "done"
    /\ inflight[1].transaction = inflight[2].transaction
    /\ {inflight[1].error, inflight[2].error} = {"none", "IntegrityError"}
    /\ Len(disputes) = 1
    /\ disputes[1].transaction = inflight[1].transaction

====
